---- MODULE Spec2Model ----
(***************************************************************************)
(* etcd-druid: the etcd configuration builder (internal/component/         *)
(* configmap/etcdconfig.go), the AllMembersReady condition check           *)
(* (pkg/health/condition/check_all_members.go) and the feature gate        *)
(* registration (pkg/features/features.go).                                *)
(*                                                                         *)
(* Go strings are TLA+ strings; a Go pointer or a nil-able slice is a set  *)
(* with no element (nil) or one element (the value pointed to), so that a  *)
(* present-but-empty slice, Ptr(<<>>), differs from an absent one, Nil.    *)
(***************************************************************************)
EXTENDS Integers, Sequences, FiniteSets, TLC

VARIABLES
    etcd,        \* the druidv1alpha1.Etcd object handed to createEtcdConfig
    cfg,         \* the *etcdConfig the last createEtcdConfig call returned
    cfgStatus,   \* "idle" | "returned" | "panicked": outcome of createEtcdConfig
    members,     \* etcd.Status.Members, the list handed to allMembersReady.Check
    result,      \* the Result the last Check call returned
    checked,     \* whether Check has returned
    known,       \* FeatureGate's registry: gate name -> registered FeatureSpec
    prevKnown,   \* the registry as it was when the last Add call started
    lastAdd,     \* the features map of the last Add call (Nil before the first)
    closed,      \* FeatureGate was bound to a flag set: no Add accepted any more
    panicked     \* utilruntime.Must panicked on an error returned by Add

vars == <<etcd, cfg, cfgStatus, members, result, checked,
          known, prevKnown, lastAdd, closed, panicked>>

configVars == <<etcd, cfg, cfgStatus>>
checkVars == <<members, result, checked>>
featureVars == <<known, prevKnown, lastAdd, closed, panicked>>

-----------------------------------------------------------------------------
(* Pointers *)

Nil == {}

Ptr(v) == {v}

\* utils.TypeDeref / pointer.Int32Deref: the value pointed to, or the default.
TypeDeref(p, def) == IF p = Nil THEN def ELSE CHOOSE v \in p : TRUE

\* fmt's %d and strconv.Itoa on the non-negative numbers of the model.
Itoa(n) == ToString(n)

\* An int64 byte count gi * 1024^3 + b, with 0 <= b < 1024^3, kept in two
\* parts: the values of the quota do not fit TLC's 32-bit integers.
Int64(gi, b) == [Gi |-> gi, B |-> b]

-----------------------------------------------------------------------------
(* Bounds of the model *)

\* Largest etcd.Spec.Replicas drawn.
MaxReplicas == 3

\* Largest number of members in an override list.
MaxOverrideMembers == 2

\* Largest number of members in etcd.Status.Members.
MaxStatusMembers == 4

-----------------------------------------------------------------------------
(* Constants of the api and common packages *)

VolumeMountPathEtcdCA == "/var/etcd/ssl/ca"

VolumeMountPathEtcdServerTLS == "/var/etcd/ssl/server"

VolumeMountPathEtcdPeerCA == "/var/etcd/ssl/peer/ca"

VolumeMountPathEtcdPeerServerTLS == "/var/etcd/ssl/peer/server"

VolumeMountPathEtcdData == "/var/etcd/data"

DefaultPortEtcdPeer == 2380

DefaultPortEtcdClient == 2379

Basic == "basic"

Periodic == "periodic"

\* druidv1alpha1.GetPeerServiceName
GetPeerServiceName(meta) == meta.Name \o "-peer"

\* druidv1alpha1.GetOrdinalPodName
GetOrdinalPodName(meta, ordinal) == meta.Name \o "-" \o Itoa(ordinal)

-----------------------------------------------------------------------------
(* etcdconfig.go: default values *)

defaultDBQuotaBytes == Int64(8, 0)

defaultAutoCompactionRetention == "30m"

defaultInitialClusterToken == "etcd-cluster"

defaultInitialClusterState == "new"

defaultSnapshotCount == 75000

defaultDataDir == VolumeMountPathEtcdData \o "/new.etcd"

defaultTLSCASecretKey == "ca.crt"

\* The zero value of securityConfig: what an etcdConfig field holds when it is
\* never assigned, and what yaml's omitempty leaves out of the document.
ZeroSecurityConfig ==
    [CertFile |-> "", KeyFile |-> "", ClientCertAuth |-> FALSE,
     TrustedCAFile |-> "", AutoTLS |-> FALSE]

ZeroEtcdConfig ==
    [Name |-> "", DataDir |-> "", Metrics |-> "", SnapshotCount |-> 0,
     EnableV2 |-> FALSE, QuotaBackendBytes |-> Int64(0, 0),
     InitialClusterToken |-> "", InitialClusterState |-> "",
     InitialCluster |-> "", AutoCompactionMode |-> "",
     AutoCompactionRetention |-> "", ListenPeerUrls |-> "",
     ListenClientUrls |-> "", AdvertisePeerUrls |-> "",
     AdvertiseClientUrls |-> "",
     ClientSecurity |-> ZeroSecurityConfig,
     PeerSecurity |-> ZeroSecurityConfig]

-----------------------------------------------------------------------------
(* strings.Trim(s, ","): every leading and every trailing comma is removed *)

RECURSIVE TrimLeft(_)
TrimLeft(s) ==
    IF Len(s) > 0 /\ SubSeq(s, 1, 1) = ","
    THEN TrimLeft(SubSeq(s, 2, Len(s)))
    ELSE s

RECURSIVE TrimRight(_)
TrimRight(s) ==
    IF Len(s) > 0 /\ SubSeq(s, Len(s), Len(s)) = ","
    THEN TrimRight(SubSeq(s, 1, Len(s) - 1))
    ELSE s

Trim(s) == TrimRight(TrimLeft(s))

-----------------------------------------------------------------------------
(* etcdconfig.go *)

getDBQuotaBytesIgnoreZero(e) ==
    IF e.Quota # Nil /\ e.Quota # Ptr(Int64(0, 0))
    THEN TypeDeref(e.Quota, defaultDBQuotaBytes)
    ELSE defaultDBQuotaBytes

getDBQuotaBytes(e) ==
    IF e.Quota # Nil
    THEN TypeDeref(e.Quota, defaultDBQuotaBytes)
    ELSE defaultDBQuotaBytes

getSchemeAndSecurityConfigNoAuth(tlsConfig, caPath, serverTLSPath) ==
    IF tlsConfig # Nil
    THEN [scheme |-> "https",
          security |-> Ptr(
              [CertFile |-> serverTLSPath \o "/tls.crt",
               KeyFile |-> serverTLSPath \o "/tls.key",
               ClientCertAuth |-> FALSE,
               TrustedCAFile |-> caPath \o "/" \o defaultTLSCASecretKey,
               AutoTLS |-> FALSE])]
    ELSE [scheme |-> "http", security |-> Nil]

getSchemeAndSecurityConfig(tlsConfig, caPath, serverTLSPath) ==
    IF tlsConfig # Nil
    THEN [scheme |-> "https",
          security |-> Ptr(
              [CertFile |-> serverTLSPath \o "/tls.crt",
               KeyFile |-> serverTLSPath \o "/tls.key",
               ClientCertAuth |-> TRUE,
               TrustedCAFile |-> caPath \o "/" \o
                   TypeDeref((CHOOSE t \in tlsConfig : TRUE).DataKey,
                             defaultTLSCASecretKey),
               AutoTLS |-> FALSE])]
    ELSE [scheme |-> "http", security |-> Nil]

\* The inner loop of the three prepare functions: one "name=url," per URL.
RECURSIVE WriteMemberURLs(_, _)
WriteMemberURLs(name, urls) ==
    IF urls = <<>>
    THEN ""
    ELSE name \o "=" \o Head(urls) \o "," \o WriteMemberURLs(name, Tail(urls))

\* The outer loop: the builder's content after every member was written.
RECURSIVE WriteMembers(_)
WriteMembers(list) ==
    IF list = <<>>
    THEN ""
    ELSE WriteMemberURLs(Head(list).Name, Head(list).URLs)
             \o WriteMembers(Tail(list))

\* The loop over the ordinals i .. replicas-1 of the generated initial cluster.
RECURSIVE WriteOrdinals(_, _, _, _, _)
WriteOrdinals(e, peerScheme, domainName, serverPort, i) ==
    IF i < e.Replicas
    THEN LET podName == GetOrdinalPodName(e, i)
         IN  podName \o "=" \o peerScheme \o "://" \o podName \o "."
                 \o domainName \o ":" \o serverPort \o ","
                 \o WriteOrdinals(e, peerScheme, domainName, serverPort, i + 1)
    ELSE ""

prepareInitialClusterLenCheck(e, peerScheme) ==
    IF e.InitialCluster # Nil /\ e.InitialCluster # Ptr(<<>>)
    THEN Trim(WriteMembers(TypeDeref(e.InitialCluster, <<>>)))
    ELSE Trim(WriteOrdinals(e, peerScheme,
                  GetPeerServiceName(e) \o "." \o e.Namespace \o ".svc",
                  Itoa(TypeDeref(e.ServerPort, DefaultPortEtcdPeer)), 0))

prepareInitialClusterFromOne(e, peerScheme) ==
    IF e.InitialCluster # Nil
    THEN Trim(WriteMembers(TypeDeref(e.InitialCluster, <<>>)))
    ELSE Trim(WriteOrdinals(e, peerScheme,
                  GetPeerServiceName(e) \o "." \o e.Namespace \o ".svc",
                  Itoa(TypeDeref(e.ServerPort, DefaultPortEtcdPeer)), 1))

prepareInitialCluster(e, peerScheme) ==
    IF e.InitialCluster # Nil
    THEN Trim(WriteMembers(TypeDeref(e.InitialCluster, <<>>)))
    ELSE Trim(WriteOrdinals(e, peerScheme,
                  GetPeerServiceName(e) \o "." \o e.Namespace \o ".svc",
                  Itoa(TypeDeref(e.ServerPort, DefaultPortEtcdPeer)), 0))

preparePeerURLs(e, peerScheme, peerSvcName) ==
    IF e.PeerURLs # Nil
    THEN Trim(WriteMembers(TypeDeref(e.PeerURLs, <<>>)))
    ELSE peerScheme \o "@" \o peerSvcName \o "@" \o e.Namespace \o "@"
             \o Itoa(TypeDeref(e.ServerPort, DefaultPortEtcdPeer))

prepareClientURLs(e, clientScheme, peerSvcName) ==
    IF e.ClientURLs # Nil
    THEN Trim(WriteMembers(TypeDeref(e.ClientURLs, <<>>)))
    ELSE clientScheme \o "@" \o peerSvcName \o "@" \o e.Namespace \o "@"
             \o Itoa(TypeDeref(e.ClientPort, DefaultPortEtcdClient))

\* etcd.UID[:6] panics (slice bounds out of range) on a UID of fewer than 6 bytes.
createEtcdConfigPanics(e) == Len(e.UID) < 6

createEtcdConfig(e) ==
    LET client == getSchemeAndSecurityConfig(e.ClientUrlTLS,
                      VolumeMountPathEtcdCA, VolumeMountPathEtcdServerTLS)
        peer == getSchemeAndSecurityConfig(e.PeerUrlTLS,
                      VolumeMountPathEtcdPeerCA, VolumeMountPathEtcdPeerServerTLS)
        peerSvcName == GetPeerServiceName(e)
    IN  [Name |-> "etcd-" \o SubSeq(e.UID, 1, 6),
         DataDir |-> defaultDataDir,
         Metrics |-> TypeDeref(e.Metrics, Basic),
         SnapshotCount |-> defaultSnapshotCount,
         EnableV2 |-> FALSE,
         QuotaBackendBytes |-> getDBQuotaBytes(e),
         InitialClusterToken |-> defaultInitialClusterToken,
         InitialClusterState |-> defaultInitialClusterState,
         InitialCluster |-> prepareInitialCluster(e, peer.scheme),
         AutoCompactionMode |-> TypeDeref(e.AutoCompactionMode, Periodic),
         AutoCompactionRetention |->
             TypeDeref(e.AutoCompactionRetention, defaultAutoCompactionRetention),
         ListenPeerUrls |-> peer.scheme \o "://0.0.0.0:"
             \o Itoa(TypeDeref(e.ServerPort, DefaultPortEtcdPeer)),
         ListenClientUrls |-> client.scheme \o "://0.0.0.0:"
             \o Itoa(TypeDeref(e.ClientPort, DefaultPortEtcdClient)),
         AdvertisePeerUrls |-> preparePeerURLs(e, peer.scheme, peerSvcName),
         AdvertiseClientUrls |-> prepareClientURLs(e, client.scheme, peerSvcName),
         ClientSecurity |-> TypeDeref(client.security, ZeroSecurityConfig),
         PeerSecurity |-> TypeDeref(peer.security, ZeroSecurityConfig)]

\* One createEtcdConfig call on the object under reconciliation.
CreateEtcdConfig ==
    /\ cfgStatus # "panicked"
    /\ IF createEtcdConfigPanics(etcd)
       THEN /\ cfgStatus' = "panicked"
            /\ UNCHANGED cfg
       ELSE /\ cfgStatus' = "returned"
            /\ cfg' = createEtcdConfig(etcd)
    /\ UNCHANGED <<etcd, checkVars, featureVars>>

-----------------------------------------------------------------------------
(* check_all_members.go *)

EtcdMemberStatusReady == "Ready"

EtcdMemberStatusNotReady == "NotReady"

EtcdMemberStatusUnknown == "Unknown"

ConditionTrue == "True"

ConditionFalse == "False"

ConditionUnknown == "Unknown"

ConditionTypeAllMembersReady == "AllMembersReady"

ZeroResult == [conType |-> "", status |-> "", reason |-> "", message |-> ""]

ScanMembersFirstOnly(ms, res) ==
    IF ms # <<>> /\ Head(ms).Status # "Ready"
    THEN [res EXCEPT !.status = "False",
                     !.reason = "NotAllMembersReady",
                     !.message = "At least one member is not ready"]
    ELSE res

\* The range loop of Check: the first member that is not Ready ends the scan.
RECURSIVE ScanMembers(_, _)
ScanMembers(ms, res) ==
    IF ms = <<>>
    THEN res
    ELSE IF Head(ms).Status # EtcdMemberStatusReady
         THEN [res EXCEPT !.status = ConditionFalse,
                          !.reason = "NotAllMembersReady",
                          !.message = "At least one member is not ready"]
         ELSE ScanMembers(Tail(ms), res)

CheckNoEmptyCase(ms) ==
    ScanMembers(ms,
        [conType |-> ConditionTypeAllMembersReady,
         status |-> ConditionTrue,
         reason |-> "AllMembersReady",
         message |-> "All members are ready"])

Check(ms) ==
    IF Len(ms) = 0
    THEN [conType |-> ConditionTypeAllMembersReady,
          status |-> ConditionUnknown,
          reason |-> "NoMembersInStatus",
          message |-> "Cannot determine readiness since status has no members"]
    ELSE ScanMembers(ms,
             [conType |-> ConditionTypeAllMembersReady,
              status |-> ConditionTrue,
              reason |-> "AllMembersReady",
              message |-> "All members are ready"])

\* One Check call on the observed status.
CheckAllMembers ==
    /\ result' = Check(members)
    /\ checked' = TRUE
    /\ UNCHANGED <<members, configVars, featureVars>>

-----------------------------------------------------------------------------
(* features.go *)

BackupCompaction == "BackupCompaction"

\* The gate name of the template comment: a gate some other package registers.
MyFeature == "MyFeature"

Alpha == "ALPHA"

Beta == "BETA"

GateNames == {BackupCompaction, MyFeature}

FeatureSpecs == [Default : BOOLEAN, PreRelease : {Alpha, Beta}]

featureGates ==
    [name \in {BackupCompaction} |-> [Default |-> FALSE, PreRelease |-> Alpha]]

\* featuregate.FeatureGate.Add: refused once the gate is closed, and refused
\* when a name is already known with a different spec; a name already known
\* with the same spec is skipped, and nothing is stored when Add is refused.
Add(kn, cl, features) ==
    IF cl
    THEN [err |-> TRUE, known |-> kn]
    ELSE IF \E name \in DOMAIN features :
                kn[name] # Nil /\ kn[name] # Ptr(features[name])
         THEN [err |-> TRUE, known |-> kn]
         ELSE [err |-> FALSE,
               known |-> [name \in DOMAIN kn |->
                             IF name \in DOMAIN features /\ kn[name] = Nil
                             THEN Ptr(features[name])
                             ELSE kn[name]]]

MustAddIgnoreError(features) ==
    /\ ~panicked
    /\ prevKnown' = known
    /\ lastAdd' = Ptr([features |-> features, closed |-> closed])
    /\ known' = Add(known, closed, features).known
    /\ panicked' = FALSE
    /\ UNCHANGED closed

\* utilruntime.Must(FeatureGate.Add(features)): panics on the error.
MustAdd(features) ==
    /\ ~panicked
    /\ prevKnown' = known
    /\ lastAdd' = Ptr([features |-> features, closed |-> closed])
    /\ known' = Add(known, closed, features).known
    /\ panicked' = Add(known, closed, features).err
    /\ UNCHANGED closed

RegisterFeatureGates ==
    /\ MustAdd(featureGates)
    /\ UNCHANGED <<configVars, checkVars>>

\* Another package registering its gates on the shared FeatureGate.
AddFeatures ==
    /\ \E names \in SUBSET GateNames \ {{}} :
           \E features \in [names -> FeatureSpecs] : MustAdd(features)
    /\ UNCHANGED <<configVars, checkVars>>

\* FeatureGate.AddFlag: binding the gate to the flag set closes it.
AddFlag ==
    /\ ~panicked
    /\ ~closed
    /\ closed' = TRUE
    /\ UNCHANGED <<known, prevKnown, lastAdd, panicked, configVars, checkVars>>

-----------------------------------------------------------------------------
(* Inputs *)

\* ObjectMeta: name, namespace and UID; UIDs of 0, 3 and 36 bytes.
ObjectMetas ==
    { [Name |-> "main", Namespace |-> "default",
       UID |-> "a1b2c3d4-0000-4000-8000-000000000001"],
      [Name |-> "test", Namespace |-> "shoot",
       UID |-> "f9e8d7c6-0000-4000-8000-000000000002"],
      [Name |-> "main", Namespace |-> "default", UID |-> "abc"],
      [Name |-> "main", Namespace |-> "default", UID |-> ""] }

TLSConfigs ==
    { Nil, Ptr([DataKey |-> Nil]), Ptr([DataKey |-> Ptr("bundle.crt")]) }

\* Whole numbers of bytes: zero, below, at and above the default.
Quotas ==
    { Nil, Ptr(Int64(0, 0)), Ptr(Int64(0, 1000)), Ptr(Int64(8, 0)),
      Ptr(Int64(8, 1)) }

\* Members of an override list: two URLs, a name that begins and a URL that
\* ends with the separator, an empty name and URL, and no URL at all.
OverrideMembers ==
    { [Name |-> "etcd-0", URLs |-> <<"http://a:2380", "http://b:2380">>],
      [Name |-> ",x", URLs |-> <<"u,">>],
      [Name |-> "", URLs |-> <<"">>],
      [Name |-> "idle", URLs |-> <<>>] }

OverrideLists ==
    UNION { [1..n -> OverrideMembers] : n \in 0..MaxOverrideMembers }

EtcdObject(meta, replicas, clientTLS, peerTLS, quota, serverPort, clientPort, initialCluster, peerURLs, clientURLs) ==
    [Name |-> meta.Name, Namespace |-> meta.Namespace, UID |-> meta.UID,
     Replicas |-> replicas, ClientUrlTLS |-> clientTLS, PeerUrlTLS |-> peerTLS,
     Quota |-> quota, ServerPort |-> serverPort, ClientPort |-> clientPort,
     InitialCluster |-> initialCluster, PeerURLs |-> peerURLs,
     ClientURLs |-> clientURLs,
     Metrics |-> Nil, AutoCompactionMode |-> Nil,
     AutoCompactionRetention |-> Nil]

\* Objects without overrides: every combination of the other fields.
GeneratedInputs ==
    { EtcdObject(meta, replicas, clientTLS, peerTLS, quota, serverPort,
                 clientPort, Nil, Nil, Nil) :
        meta \in ObjectMetas, replicas \in 0..MaxReplicas,
        clientTLS \in TLSConfigs, peerTLS \in TLSConfigs, quota \in Quotas,
        serverPort \in {Nil, Ptr(2222)}, clientPort \in {Nil, Ptr(3333)} }

\* Objects with one override list on any of the three fields, for two
\* objects, the smallest and largest replica count, TLS on or off, and a
\* default or a configured server port.
OverrideInputs ==
    UNION { { EtcdObject(meta, replicas, clientTLS, peerTLS, Nil, port, Nil,
                         initialCluster, peerURLs, clientURLs) :
                meta \in {m \in ObjectMetas : Len(m.UID) >= 6},
                replicas \in {0, MaxReplicas},
                clientTLS \in {Nil, Ptr([DataKey |-> Nil])},
                peerTLS \in {Nil, Ptr([DataKey |-> Nil])},
                port \in {Nil, Ptr(2222)},
                initialCluster \in {Nil, Ptr(list)},
                peerURLs \in {Nil, Ptr(list)},
                clientURLs \in {Nil, Ptr(list)} } : list \in OverrideLists }

EtcdInputs == GeneratedInputs \cup OverrideInputs

DefaultEtcd ==
    EtcdObject(CHOOSE m \in ObjectMetas : m.Name = "main" /\ Len(m.UID) >= 6,
               MaxReplicas, Nil, Nil, Nil, Nil, Nil, Nil, Nil, Nil)

MemberStatuses ==
    {EtcdMemberStatusReady, EtcdMemberStatusNotReady, EtcdMemberStatusUnknown}

MemberLists ==
    UNION { [1..n -> [Status : MemberStatuses]] : n \in 0..MaxStatusMembers }

-----------------------------------------------------------------------------
(* Specifications *)

IdleConfig ==
    /\ cfg = ZeroEtcdConfig
    /\ cfgStatus = "idle"

IdleCheck ==
    /\ result = ZeroResult
    /\ checked = FALSE

IdleFeatures ==
    /\ known = [name \in GateNames |-> Nil]
    /\ prevKnown = [name \in GateNames |-> Nil]
    /\ lastAdd = Nil
    /\ closed = FALSE
    /\ panicked = FALSE

\* The configuration builder on every input object.
Init ==
    /\ etcd \in EtcdInputs
    /\ IdleConfig
    /\ members = <<>>
    /\ IdleCheck
    /\ IdleFeatures

Next == CreateEtcdConfig

Spec == Init /\ [][Next]_vars

\* The condition check on every member list.
InitCheck ==
    /\ etcd = DefaultEtcd
    /\ IdleConfig
    /\ members \in MemberLists
    /\ IdleCheck
    /\ IdleFeatures

NextCheck == CheckAllMembers

SpecCheck == InitCheck /\ [][NextCheck]_vars

\* The feature gate registry from process start.
InitFeatures ==
    /\ etcd = DefaultEtcd
    /\ IdleConfig
    /\ members = <<>>
    /\ IdleCheck
    /\ IdleFeatures

NextFeatures ==
    \/ RegisterFeatureGates
    \/ AddFeatures
    \/ AddFlag

SpecFeatures == InitFeatures /\ [][NextFeatures]_vars

-----------------------------------------------------------------------------
(* Properties of the configuration builder *)

Returned == cfgStatus = "returned"

ExpectedScheme(tlsConfig) == IF tlsConfig = Nil THEN "http" ELSE "https"

ExpectedSecurity(tlsConfig, caPath, serverTLSPath) ==
    IF tlsConfig = Nil
    THEN ZeroSecurityConfig
    ELSE LET dataKey == (CHOOSE t \in tlsConfig : TRUE).DataKey
         IN  [CertFile |-> serverTLSPath \o "/tls.crt",
              KeyFile |-> serverTLSPath \o "/tls.key",
              ClientCertAuth |-> TRUE,
              TrustedCAFile |-> caPath \o "/" \o
                  (IF dataKey = Nil THEN "ca.crt" ELSE CHOOSE k \in dataKey : TRUE),
              AutoTLS |-> FALSE]

ExpectedServerPort == IF etcd.ServerPort = Nil THEN "2380" ELSE "2222"

ExpectedClientPort == IF etcd.ClientPort = Nil THEN "2379" ELSE "3333"

\* C1: for the client and for the peer target alone, an absent TLS config
\* gives the http scheme and the empty security block, a present one gives
\* the https scheme and the block with tls.crt and tls.key under the server
\* TLS path, the CA file under the CA path named by the data key or ca.crt,
\* and client-cert-auth on; neither target reads the other's TLS config.
TLSDuality ==
    Returned =>
        /\ cfg.ListenClientUrls =
               ExpectedScheme(etcd.ClientUrlTLS) \o "://0.0.0.0:" \o ExpectedClientPort
        /\ cfg.ClientSecurity =
               ExpectedSecurity(etcd.ClientUrlTLS, "/var/etcd/ssl/ca",
                                "/var/etcd/ssl/server")
        /\ cfg.ListenPeerUrls =
               ExpectedScheme(etcd.PeerUrlTLS) \o "://0.0.0.0:" \o ExpectedServerPort
        /\ cfg.PeerSecurity =
               ExpectedSecurity(etcd.PeerUrlTLS, "/var/etcd/ssl/peer/ca",
                                "/var/etcd/ssl/peer/server")

TLSDualityWitness ==
    /\ Returned
    /\ etcd.ClientUrlTLS = Nil
    /\ etcd.PeerUrlTLS = Ptr([DataKey |-> Ptr("bundle.crt")])
    /\ cfg.ListenClientUrls = "http://0.0.0.0:2379"
    /\ cfg.ListenPeerUrls = "https://0.0.0.0:2380"
    /\ cfg.ClientSecurity = ZeroSecurityConfig
    /\ cfg.PeerSecurity.TrustedCAFile = "/var/etcd/ssl/peer/ca/bundle.crt"
    /\ cfg.PeerSecurity.ClientCertAuth

\* C3: QuotaBackendBytes is 8 * 1024^3 when the quota is absent and the
\* quota's own value whenever it is present, zero included.
QuotaDefault ==
    Returned =>
        cfg.QuotaBackendBytes =
            IF etcd.Quota = Nil
            THEN [Gi |-> 8, B |-> 0]
            ELSE CHOOSE q \in etcd.Quota : TRUE

QuotaDefaultWitness ==
    /\ Returned
    /\ etcd.Quota = Ptr(Int64(0, 0))
    /\ cfg.QuotaBackendBytes = Int64(0, 0)

\* The entry of ordinal i of the generated initial cluster.
OrdinalEntry(i) ==
    GetOrdinalPodName(etcd, i) \o "=" \o ExpectedScheme(etcd.PeerUrlTLS) \o "://"
        \o GetOrdinalPodName(etcd, i) \o "." \o GetPeerServiceName(etcd) \o "."
        \o etcd.Namespace \o ".svc:" \o ExpectedServerPort

\* The entries of the ordinals 0 .. n-1, a single comma between neighbours.
RECURSIVE JoinOrdinals(_)
JoinOrdinals(n) ==
    IF n = 0
    THEN ""
    ELSE IF n = 1
         THEN OrdinalEntry(0)
         ELSE JoinOrdinals(n - 1) \o "," \o OrdinalEntry(n - 1)

\* C4: without an initial-cluster override the initial cluster is the
\* entries of the ordinals 0 .. replicas-1 in ascending order, each with
\* the peer scheme, joined by single commas; empty for zero replicas.
InitialClusterGenerated ==
    (Returned /\ etcd.InitialCluster = Nil) =>
        cfg.InitialCluster = JoinOrdinals(etcd.Replicas)

InitialClusterGeneratedWitness ==
    /\ Returned
    /\ etcd.InitialCluster = Nil
    /\ etcd.Replicas = 3
    /\ etcd.ClientUrlTLS = Nil
    /\ etcd.PeerUrlTLS # Nil
    /\ cfg.InitialCluster =
           "main-0=https://main-0.main-peer.default.svc:2380,"
               \o "main-1=https://main-1.main-peer.default.svc:2380,"
               \o "main-2=https://main-2.main-peer.default.svc:2380"

\* Objects that differ in name, namespace, replica count, TLS and ports.
ContrastObjects ==
    { EtcdObject(meta, replicas, clientTLS, peerTLS, Nil, serverPort,
                 clientPort, Nil, Nil, Nil) :
        meta \in {m \in ObjectMetas : Len(m.UID) >= 6},
        replicas \in {0, MaxReplicas},
        clientTLS \in {Nil, Ptr([DataKey |-> Nil])},
        peerTLS \in {Nil, Ptr([DataKey |-> Nil])},
        serverPort \in {Nil, Ptr(2222)}, clientPort \in {Nil, Ptr(3333)} }

\* C5: a field whose override list is present has the value every other
\* object with the same list has, whatever its replica count, TLS, ports,
\* namespace and name; a field whose override is absent has the generated
\* value: the ordinal list, or the token scheme@service@namespace@port.
OverridePrecedence ==
    Returned =>
        /\ IF etcd.InitialCluster # Nil
           THEN \A o \in ContrastObjects :
                    createEtcdConfig([o EXCEPT !.InitialCluster = etcd.InitialCluster])
                        .InitialCluster = cfg.InitialCluster
           ELSE cfg.InitialCluster = JoinOrdinals(etcd.Replicas)
        /\ IF etcd.PeerURLs # Nil
           THEN \A o \in ContrastObjects :
                    createEtcdConfig([o EXCEPT !.PeerURLs = etcd.PeerURLs])
                        .AdvertisePeerUrls = cfg.AdvertisePeerUrls
           ELSE cfg.AdvertisePeerUrls =
                    ExpectedScheme(etcd.PeerUrlTLS) \o "@" \o etcd.Name \o "-peer@"
                        \o etcd.Namespace \o "@" \o ExpectedServerPort
        /\ IF etcd.ClientURLs # Nil
           THEN \A o \in ContrastObjects :
                    createEtcdConfig([o EXCEPT !.ClientURLs = etcd.ClientURLs])
                        .AdvertiseClientUrls = cfg.AdvertiseClientUrls
           ELSE cfg.AdvertiseClientUrls =
                    ExpectedScheme(etcd.ClientUrlTLS) \o "@" \o etcd.Name \o "-peer@"
                        \o etcd.Namespace \o "@" \o ExpectedClientPort

OverridePrecedenceWitness ==
    /\ Returned
    /\ etcd.Replicas = MaxReplicas
    /\ etcd.InitialCluster = Ptr(<<>>)
    /\ etcd.PeerURLs = Nil
    /\ etcd.ClientURLs = Ptr(<<>>)
    /\ cfg.InitialCluster = ""
    /\ cfg.AdvertisePeerUrls = "http@main-peer@default@2380"
    /\ cfg.AdvertiseClientUrls = ""

\* C7: createEtcdConfig returns a configuration for every object, a UID of
\* fewer than 6 characters included, and names it "etcd-" and the first
\* characters of the UID, at most 6.
SynthesisTotal ==
    /\ cfgStatus # "panicked"
    /\ Returned =>
           cfg.Name = "etcd-" \o SubSeq(etcd.UID, 1,
                                        IF Len(etcd.UID) < 6 THEN Len(etcd.UID) ELSE 6)

\* The "name=url" entries of an override list, in list order.
RECURSIVE MemberEntries(_, _)
MemberEntries(name, urls) ==
    IF urls = <<>>
    THEN <<>>
    ELSE <<name \o "=" \o Head(urls)>> \o MemberEntries(name, Tail(urls))

RECURSIVE ListEntries(_)
ListEntries(list) ==
    IF list = <<>>
    THEN <<>>
    ELSE MemberEntries(Head(list).Name, Head(list).URLs) \o ListEntries(Tail(list))

RECURSIVE JoinEntries(_)
JoinEntries(entries) ==
    IF entries = <<>>
    THEN ""
    ELSE IF Len(entries) = 1
         THEN Head(entries)
         ELSE Head(entries) \o "," \o JoinEntries(Tail(entries))

JoinedOverride(override) == JoinEntries(ListEntries(CHOOSE l \in override : TRUE))

\* C10: each overridden field is its list's "name=url" entries in input
\* order joined by single commas, no character of an entry dropped.
OverrideJoinExact ==
    Returned =>
        /\ etcd.InitialCluster # Nil =>
               cfg.InitialCluster = JoinedOverride(etcd.InitialCluster)
        /\ etcd.PeerURLs # Nil =>
               cfg.AdvertisePeerUrls = JoinedOverride(etcd.PeerURLs)
        /\ etcd.ClientURLs # Nil =>
               cfg.AdvertiseClientUrls = JoinedOverride(etcd.ClientURLs)

-----------------------------------------------------------------------------
(* Properties of the condition check *)

Permute(ms, p) == [i \in 1..Len(ms) |-> ms[p[i]]]

ExpectedStatus(ms) ==
    IF ms = <<>>
    THEN "Unknown"
    ELSE IF \E i \in 1..Len(ms) : ms[i].Status # "Ready"
         THEN "False"
         ELSE "True"

\* C2: Check returns the AllMembersReady condition with status Unknown for
\* an empty member list, False for a list with a member that is not Ready
\* and True for a non-empty list of Ready members; every permutation of the
\* list gives the same status, reason and message.
AllMembersReadySemantics ==
    checked =>
        /\ result.conType = "AllMembersReady"
        /\ result.status = ExpectedStatus(members)
        /\ \A p \in Permutations(1..Len(members)) :
               Check(Permute(members, p)) = result

AllMembersReadyWitness ==
    /\ checked
    /\ members = <<[Status |-> "Ready"], [Status |-> "Ready"],
                   [Status |-> "NotReady"]>>
    /\ result.status = "False"

\* C9 as stated: the condition for an empty member list carries the
\* reason "no members reported yet".
EmptyMembersReasonAsStated ==
    (checked /\ members = <<>>) => result.reason = "no members reported yet"

\* C9 as amended: the condition for an empty member list is Unknown with
\* the reason "NoMembersInStatus".
EmptyMembersReason ==
    (checked /\ members = <<>>) =>
        /\ result.status = "Unknown"
        /\ result.reason = "NoMembersInStatus"

EmptyMembersWitness ==
    /\ checked
    /\ members = <<>>
    /\ result.status = "Unknown"

-----------------------------------------------------------------------------
(* Properties of the feature gate registry *)

LastFeatures == (CHOOSE a \in lastAdd : TRUE).features

LastClosed == (CHOOSE a \in lastAdd : TRUE).closed

====
